---- MODULE Spec2Model ----
(***************************************************************************)
(* Model of the occupancy-gap analysis and offer dispatch of               *)
(* UnoccupiedDaysFormatter (src/formatters/unoccupied_days_formatter.py),  *)
(* of SmoobuAPIClient (src/services/api_client.py), of SmoobuService       *)
(* (src/services/smoobu_service.py), of EmailSender                        *)
(* (src/services/email_sender.py) and of SmoobuApp.run (src/app.py).       *)
(*                                                                         *)
(* Representation                                                          *)
(*   date object      proleptic Gregorian ordinal (date.toordinal())       *)
(*   "%Y-%m-%d" text  <<year, month, day>>, the three digit groups         *)
(*   datetime         [date |-> ordinal, time |-> seconds after midnight]  *)
(*   float            exact fraction [num, den] in lowest terms            *)
(*   dict             function; insertion-ordered dicts that are iterated  *)
(*                    are sequences of entries                             *)
(*   None / a value   <<>> / <<v>> wherever a value may be None            *)
(*   exception        the name of its class; "none" when nothing is raised *)
(***************************************************************************)
EXTENDS Integers, Sequences, FiniteSets, TLC

VARIABLES today, data, pc, idx, date_range, bookings, occupied_days, events,
          report, sent

\* SmoobuApp.run, SmoobuService and SmoobuAPIClient; the surroundings are
\* pages and drift (the API server) and smtp (the mail server)
VARIABLES step, pages, drift, smtp, cache, requests, result, page,
          all_bookings, total_items, page_count, reservations, raised

fmtvars == <<today, data, pc, idx, date_range, bookings, occupied_days, events,
             report, sent>>

fetchvars == <<page, all_bookings, total_items, page_count>>

runvars == <<step, pages, drift, smtp, cache, requests, result, page, all_bookings,
             total_items, page_count, reservations, raised>>

vars == <<today, data, pc, idx, date_range, bookings, occupied_days, events,
          report, sent, step, pages, drift, smtp, cache, requests, result, page,
          all_bookings, total_items, page_count, reservations, raised>>

(***************************************************************************)
(* Bounds of the checked instance.                                         *)
(***************************************************************************)
MaxBookings == 2
MaxUnits == 2
MaxTodaySpan == 120
MaxPages == 3
MaxCalls == 3

(***************************************************************************)
(* Calendar arithmetic of datetime.date.                                   *)
(***************************************************************************)
IsLeap(y) == (y % 4 = 0) /\ ((y % 100 # 0) \/ (y % 400 = 0))

DaysInMonth(y, m) ==
    IF m = 2 THEN (IF IsLeap(y) THEN 29 ELSE 28)
    ELSE IF m \in {4, 6, 9, 11} THEN 30 ELSE 31

DaysBeforeYear(y) ==
    (y - 1) * 365 + ((y - 1) \div 4) - ((y - 1) \div 100) + ((y - 1) \div 400)

RECURSIVE DaysBeforeMonth(_, _)
DaysBeforeMonth(y, m) ==
    IF m = 1 THEN 0 ELSE DaysBeforeMonth(y, m - 1) + DaysInMonth(y, m - 1)

\* datetime.strptime(x, "%Y-%m-%d").date()
Strptime(x) == DaysBeforeYear(x[1]) + DaysBeforeMonth(x[1], x[2]) + x[3]

\* date.strftime("%Y-%m-%d")
Strftime(d) ==
    LET y == CHOOSE yy \in (d \div 366)..((d \div 365) + 1) :
                 DaysBeforeYear(yy) < d /\ d <= DaysBeforeYear(yy + 1)
        r == d - DaysBeforeYear(y)
        m == CHOOSE mm \in 1..12 :
                 DaysBeforeMonth(y, mm) < r
                 /\ r <= DaysBeforeMonth(y, mm) + DaysInMonth(y, mm)
    IN  <<y, m, r - DaysBeforeMonth(y, m)>>

\* date.weekday(): Monday is 0, Sunday is 6
Weekday(d) == (d + 6) % 7

\* datetime.min.time()
MinTime == 0

\* datetime.combine(date, time)
Combine(d, t) == [date |-> d, time |-> t]

\* datetime + timedelta(days=i)
PlusDays(dt, i) == [date |-> dt.date + i, time |-> dt.time]

\* (a - b).days for two datetimes: the floor of the difference in days
TimedeltaDays(a, b) == (a.date - b.date) + ((a.time - b.time) \div 86400)

\* a < b on datetimes
DatetimeLess(a, b) == a.date < b.date \/ (a.date = b.date /\ a.time < b.time)

(***************************************************************************)
(* Floats, as exact fractions in lowest terms.                             *)
(***************************************************************************)
RECURSIVE GCD(_, _)
GCD(a, b) == IF b = 0 THEN a ELSE GCD(b, a % b)

Float(n, d) == LET g == GCD(n, d) IN [num |-> n \div g, den |-> d \div g]

FloatMul(x, y) == Float(x.num * y.num, x.den * y.den)

\* round(x, 2): nearest multiple of 0.01.  An exact tie goes to the even one
\* here; on doubles the representation error of the product decides it.  No
\* enumerated price and stay length produces a tie.
Round2(x) ==
    LET n == x.num * 100
        q == n \div x.den
        r == n % x.den
        c == IF 2 * r < x.den THEN q
             ELSE IF 2 * r > x.den THEN q + 1
             ELSE IF q % 2 = 0 THEN q ELSE q + 1
    IN  Float(c, 100)

(***************************************************************************)
(* UnoccupiedDaysFormatter                                                 *)
(***************************************************************************)
NoRange == [start |-> Combine(0, MinTime), end |-> Combine(0, MinTime)]

EmptyDict == [d \in {} |-> 0]

GetNextNextWeekRange7(t) ==
    LET start == t + (7 - Weekday(t))
    IN  [start |-> Combine(start, MinTime), end |-> Combine(start + 6, MinTime)]

\* _get_next_next_week_range
GetNextNextWeekRange(t) ==
    LET start == t + (14 - Weekday(t))
    IN  [start |-> Combine(start, MinTime), end |-> Combine(start + 6, MinTime)]

StayDaysExclusive(arrival, departure) ==
    {arrival + i : i \in 0..((departure - arrival) - 1)}

\* line 146: arrival + timedelta(days=i) for i in range((departure - arrival).days + 1)
StayDays(arrival, departure) ==
    {arrival + i : i \in 0..(((departure - arrival) + 1) - 1)}

DayTypeDepartureFirst(current, arrival, departure) ==
    IF current = departure THEN "departure"
    ELSE IF current = arrival THEN "arrival"
    ELSE "occupied"

\* line 148: the role of one day of a stay
DayType(current, arrival, departure) ==
    IF current = arrival THEN "arrival"
    ELSE IF current = departure THEN "departure"
    ELSE "occupied"

AverageDailyPriceUndivided(price, arrival, departure) ==
    Float(price, 1)

\* line 151: float(price) / ((departure - arrival).days + 1)
AverageDailyPrice(price, arrival, departure) ==
    Float(price, (departure - arrival) + 1)

\* line 142: the tuple unpacks into arrival, departure, guest_email,
\* guest_name, price
Unpacks(b) == Len(b) = 5

\* a day already in the map keeps its entry
AddBookingKeepFirst(occ, b) ==
    LET arrival == Strptime(b[1])
        departure == Strptime(b[2])
        days == StayDays(arrival, departure)
    IN  [d \in (DOMAIN occ) \cup days |->
            IF d \in DOMAIN occ THEN occ[d]
            ELSE [type |-> DayType(d, arrival, departure),
                  guest_name |-> b[4],
                  guest_email |-> b[3],
                  price |-> AverageDailyPrice(b[5], arrival, departure)]]

\* lines 142-152: one booking's days written into the map
AddBooking(occ, b) ==
    LET arrival == Strptime(b[1])
        departure == Strptime(b[2])
        days == StayDays(arrival, departure)
    IN  [d \in (DOMAIN occ) \cup days |->
            IF d \in days
            THEN [type |-> DayType(d, arrival, departure),
                  guest_name |-> b[4],
                  guest_email |-> b[3],
                  price |-> AverageDailyPrice(b[5], arrival, departure)]
            ELSE occ[d]]

RECURSIVE FoldBookings(_, _)
\* line 151: the division raises when the divisor is 0
DayEntryRaises(arrival, departure) ==
    IF (departure - arrival) + 1 = 0 THEN "ZeroDivisionError" ELSE "none"

\* lines 144-152 with the average daily price computed before the loop
AddBookingRaisesHoisted(b) ==
    DayEntryRaises(Strptime(b[1]), Strptime(b[2]))

\* lines 144-152: the exception raised while the days of one booking are
\* entered; the entry, and with it the division, is evaluated once per day
AddBookingRaises(b) ==
    LET arrival == Strptime(b[1])
        departure == Strptime(b[2])
    IN  IF \E d \in StayDays(arrival, departure) :
              DayEntryRaises(arrival, departure) # "none"
        THEN "ZeroDivisionError" ELSE "none"

\* lines 140-154: the exception that leaves _create_occupied_days_dict
CreateOccupiedDaysDictRaises(bs) ==
    IF \E k \in 1..Len(bs) : AddBookingRaises(bs[k]) # "none"
    THEN "ZeroDivisionError" ELSE "none"

FoldBookings(occ, bs) ==
    IF bs = <<>> THEN occ ELSE FoldBookings(AddBooking(occ, Head(bs)), Tail(bs))

CreateOccupiedDaysDictStale(bs) == FoldBookings(occupied_days, bs)

\* _create_occupied_days_dict
CreateOccupiedDaysDict(bs) == FoldBookings(EmptyDict, bs)

CheckFreeDays3(occ, current_day, event_type) ==
    LET days_to_check ==
            IF event_type = "arrival"
            THEN {current_day - i : i \in {1, 2, 3}}
            ELSE {current_day + i : i \in {1, 2, 3}}
    IN  Cardinality({day \in days_to_check : day \notin DOMAIN occ})

CheckFreeDaysSwapped(occ, current_day, event_type) ==
    LET days_to_check ==
            IF event_type = "departure"
            THEN {current_day - i : i \in {1, 2}}
            ELSE {current_day + i : i \in {1, 2}}
    IN  Cardinality({day \in days_to_check : day \notin DOMAIN occ})

\* _check_free_days
CheckFreeDays(occ, current_day, event_type) ==
    LET days_to_check ==
            IF event_type = "arrival"
            THEN {current_day - i : i \in {1, 2}}
            ELSE {current_day + i : i \in {1, 2}}
    IN  Cardinality({day \in days_to_check : day \notin DOMAIN occ})

\* the literal 0.57 of _calculate_offer_price
Discount == Float(57, 100)

CalculateOfferPriceByType(original_price, event_type) ==
    IF event_type = "arrival"
    THEN Round2(FloatMul(original_price, Discount))
    ELSE Round2(FloatMul(original_price, Float(43, 100)))

\* _calculate_offer_price
CalculateOfferPrice(original_price, event_type) ==
    Round2(FloatMul(original_price, Discount))

\* sorted(..., key=lambda e: e.date): a stable insertion sort
RECURSIVE InsertByDate(_, _)
InsertByDate(e, s) ==
    IF s = <<>> THEN <<e>>
    ELSE IF DatetimeLess(e.date, Head(s).date) THEN <<e>> \o s
    ELSE <<Head(s)>> \o InsertByDate(e, Tail(s))

RECURSIVE SortedByDate(_)
SortedByDate(s) ==
    IF s = <<>> THEN <<>>
    ELSE InsertByDate(s[Len(s)], SortedByDate(SubSeq(s, 1, Len(s) - 1)))

WindowDaysShort(range) ==
    [i \in 1..TimedeltaDays(range.end, range.start) |-> PlusDays(range.start, i - 1)]

\* the days generated at line 122: date_range.start + timedelta(days=i)
WindowDays(range) ==
    [i \in 1..(TimedeltaDays(range.end, range.start) + 1) |->
        PlusDays(range.start, i - 1)]

RetainedAll(occ, current_day) == current_day.date \in DOMAIN occ

\* the filter of the generator at line 123
Retained(occ, current_day) ==
    /\ current_day.date \in DOMAIN occ
    /\ occ[current_day.date].type \in {"arrival", "departure"}

\* the Event built at lines 113-121
MakeEvent(occ, current_day) ==
    LET entry == occ[current_day.date]
    IN  [date |-> current_day,
         type |-> entry.type,
         guest_name |-> entry.guest_name,
         guest_email |-> entry.guest_email,
         free_days |-> CheckFreeDays(occ, current_day.date, entry.type),
         price |-> entry.price,
         offer_price |-> CalculateOfferPrice(entry.price, entry.type)]

RECURSIVE GenerateEvents(_, _)
GenerateEvents(occ, days) ==
    IF days = <<>> THEN <<>>
    ELSE (IF Retained(occ, Head(days))
          THEN <<MakeEvent(occ, Head(days))>> ELSE <<>>)
         \o GenerateEvents(occ, Tail(days))

\* the events appended to the list the previous call left behind
EventsOfAccumulated(occ, range) ==
    events \o SortedByDate(GenerateEvents(occ, WindowDays(range)))

\* _analyze_bookings, given the map its first line builds
EventsOf(occ, range) == SortedByDate(GenerateEvents(occ, WindowDays(range)))

\* _analyze_bookings
AnalyzeBookings(bs, range) == EventsOf(CreateOccupiedDaysDict(bs), range)

\* the guests dict of _send_emails_for_apartment, in insertion order
RECURSIVE GroupByGuest(_, _)
GroupByGuest(guests, evs) ==
    IF evs = <<>> THEN guests
    ELSE LET event == Head(evs)
             known == \E k \in 1..Len(guests) : guests[k].email = event.guest_email
             opened == IF known THEN guests
                       ELSE Append(guests, [email |-> event.guest_email,
                                            name |-> event.guest_name,
                                            events |-> <<>>])
             added == [k \in 1..Len(opened) |->
                          IF opened[k].email = event.guest_email
                          THEN [opened[k] EXCEPT !.events = Append(@, event)]
                          ELSE opened[k]]
         IN  GroupByGuest(added, Tail(evs))

\* next((event for event in events if event.type == t), None): <<>> is None
FirstOfType(evs, t) ==
    LET hits == SelectSeq(evs, LAMBDA e : e.type = t)
    IN  IF hits = <<>> THEN <<>> ELSE <<Head(hits)>>

\* _send_email: the messages handed to email_sender.send_email
SendEmail(apartment, guest_name, evs) ==
    LET arrival_event == FirstOfType(evs, "arrival")
        departure_event == FirstOfType(evs, "departure")
    IN  IF arrival_event # <<>> \/ departure_event # <<>>
        THEN <<[to |-> evs[1].guest_email,
                apartment |-> apartment,
                guest_name |-> guest_name,
                arrival_event |-> arrival_event,
                departure_event |-> departure_event]>>
        ELSE <<>>

RECURSIVE SendToGuests(_, _)
SendToGuests(apartment, guests) ==
    IF guests = <<>> THEN <<>>
    ELSE SendEmail(apartment, Head(guests).name, Head(guests).events)
         \o SendToGuests(apartment, Tail(guests))

\* one email per event, without the grouping by guest email
SendEmailsPerEvent(apartment, evs) ==
    SendToGuests(apartment,
                 [k \in 1..Len(evs) |-> [email |-> evs[k].guest_email,
                                         name |-> evs[k].guest_name,
                                         events |-> <<evs[k]>>]])

\* _send_emails_for_apartment
SendEmailsForApartment(apartment, evs) ==
    SendToGuests(apartment, GroupByGuest(<<>>, evs))

RECURSIVE TotalLen(_)
TotalLen(ls) == IF ls = <<>> THEN 0 ELSE Len(Head(ls)) + TotalLen(Tail(ls))

(***************************************************************************)
(* exceptions.py                                                           *)
(***************************************************************************)
\* RateLimitExceeded and AuthenticationError derive from SmoobuAPIError
IsSmoobuAPIError(exc) ==
    exc \in {"SmoobuAPIError", "RateLimitExceeded", "AuthenticationError"}

(***************************************************************************)
(* The Smoobu API as the client sees it.  pages is the paginated booking   *)
(* list the server holds for the requested range; an HTTP exchange ends    *)
(* with a 2xx response carrying JSON, with an error status                 *)
(* (raise_for_status raises HTTPError), or with no response at all         *)
(* (connection failure, timeout: RequestException).                        *)
(***************************************************************************)
Ok == [error |-> "none", status |-> 200]

HttpError(status) == [error |-> "HTTPError", status |-> status]

NetworkError == [error |-> "RequestException", status |-> 0]

Outcomes ==
    {Ok, HttpError(429), HttpError(401), HttpError(500), NetworkError}

MeEndpoint == <<"me">>

\* f"reservations?from={start_date}&to={end_date}&pageSize=100&page={page}"
ReservationsEndpoint(start_date, end_date, p) ==
    <<"reservations", start_date, end_date, 100, p>>

MessageEndpoint(reservation_id) ==
    <<"reservations", reservation_id, "messages", "send-message-to-host">>

UserJson ==
    [id |-> 7, firstName |-> "Olga", lastName |-> "Host",
     email |-> "host@example.com"]

\* the server's answer for page p; the first page reports the totals of the
\* stored pages, a later page reports totals that moved by drift since then
PageJson(p) ==
    LET moved == IF p > 1 THEN drift ELSE 0
    IN  [bookings |-> IF p \in 1..Len(pages) THEN pages[p] ELSE <<>>,
         total_items |-> TotalLen(pages) + moved,
         page_count |-> Len(pages) + moved]

\* the JSON body of a 2xx response
ServerResponse(endpoint) ==
    IF endpoint = MeEndpoint THEN UserJson
    ELSE IF Len(endpoint) = 5 THEN PageJson(endpoint[5])
    ELSE [status |-> "sent"]

(***************************************************************************)
(* SmoobuAPIClient                                                         *)
(***************************************************************************)
\* the handlers without their else branch: an HTTP error other than 429 and
\* 401 leaves the client as it is
RaisedForUnmapped(outcome) ==
    IF outcome.error = "HTTPError"
    THEN IF outcome.status = 429 THEN "RateLimitExceeded"
         ELSE IF outcome.status = 401 THEN "AuthenticationError"
         ELSE "HTTPError"
    ELSE IF outcome.error = "RequestException" THEN "SmoobuAPIError"
    ELSE "none"

\* lines 96-104 and 129-137: the exception a failed exchange is turned into
RaisedFor(outcome) ==
    IF outcome.error = "HTTPError"
    THEN IF outcome.status = 429 THEN "RateLimitExceeded"
         ELSE IF outcome.status = 401 THEN "AuthenticationError"
         ELSE "SmoobuAPIError"
    ELSE IF outcome.error = "RequestException" THEN "SmoobuAPIError"
    ELSE "none"

\* a key that leaves out the page number of a reservations request
CacheKeyWithoutPage(endpoint) ==
    IF Len(endpoint) = 5 THEN SubSeq(endpoint, 1, 4) ELSE endpoint

\* line 86: the key under which a response is looked up and stored
CacheKey(endpoint) == endpoint

\* line 86
Cached(c, endpoint) == CacheKey(endpoint) \in DOMAIN c

\* line 94
Store(c, endpoint, json) ==
    [k \in DOMAIN c \cup {CacheKey(endpoint)} |->
        IF k = CacheKey(endpoint) THEN json ELSE c[k]]

\* line 94, reached only after raise_for_status and json() succeeded
CacheAfter(c, endpoint, outcome) ==
    IF outcome = Ok THEN Store(c, endpoint, ServerResponse(endpoint)) ELSE c

Request(method, endpoint, outcome) ==
    [method |-> method, endpoint |-> endpoint, outcome |-> outcome]

NoResult ==
    [n |-> 0, method |-> "none", endpoint |-> <<>>, raised |-> "none",
     value |-> <<>>]

\* get: what the call returns or raises, given the outcome the HTTP
\* exchange would have
GetResult(c, endpoint, outcome) ==
    IF Cached(c, endpoint)
    THEN [raised |-> "none", value |-> <<c[CacheKey(endpoint)]>>]
    ELSE IF outcome = Ok
    THEN [raised |-> "none", value |-> <<ServerResponse(endpoint)>>]
    ELSE [raised |-> RaisedFor(outcome), value |-> <<>>]

\* get: its effect on the cache and on the requests sent
GetEffect(endpoint, outcome) ==
    /\ cache' = IF Cached(cache, endpoint) THEN cache
                ELSE CacheAfter(cache, endpoint, outcome)
    /\ requests' = IF Cached(cache, endpoint) THEN requests
                   ELSE Append(requests, Request("GET", endpoint, outcome))
    /\ result' = [n |-> result.n + 1, method |-> "GET",
                  endpoint |-> endpoint,
                  raised |-> GetResult(cache, endpoint, outcome).raised,
                  value |-> GetResult(cache, endpoint, outcome).value]

\* post: never cached
PostResult(endpoint, outcome) ==
    IF outcome = Ok
    THEN [raised |-> "none", value |-> <<ServerResponse(endpoint)>>]
    ELSE [raised |-> RaisedFor(outcome), value |-> <<>>]

PostEffect(endpoint, outcome) ==
    /\ cache' = cache
    /\ requests' = Append(requests, Request("POST", endpoint, outcome))
    /\ result' = [n |-> result.n + 1, method |-> "POST",
                  endpoint |-> endpoint,
                  raised |-> PostResult(endpoint, outcome).raised,
                  value |-> PostResult(endpoint, outcome).value]

(***************************************************************************)
(* SmoobuService                                                           *)
(***************************************************************************)
\* lines 91-101
BookingDTO(b) ==
    [id |-> b["id"], reference_id |-> b["reference-id"],
     guest_name |-> b["guest-name"], email |-> b["email"],
     arrival |-> b["arrival"], departure |-> b["departure"],
     price |-> b["price"], apartment |-> b["apartment"],
     channel |-> b["channel"]]

\* lines 90-103
BookingDTOs(js) == [i \in 1..Len(js) |-> BookingDTO(js[i])]

\* the loop stops one page before the last
\* get_reservations, lines 82-85 with a range of two weeks
FetchRange14(t) ==
    [start_date |-> Strftime(t), end_date |-> Strftime(t + 14)]

\* get_reservations, lines 82-85: the range asked from the API, as the
\* "%Y-%m-%d" texts of today and of today + 21 days
FetchRange(t) ==
    [start_date |-> Strftime(t), end_date |-> Strftime(t + 21)]

\* the totals reported while later pages are fetched move by one of these
Drifts == {-1, 0, 1}

\* get_reservations, lines 106-108 with the totals of the latest page
LatestPageTotals(kept_items, kept_count, json) ==
    [total_items |-> <<json.total_items>>, page_count |-> <<json.page_count>>]

\* get_reservations, lines 106-108: the totals are taken while none is held
FirstPageTotals(kept_items, kept_count, json) ==
    IF kept_items = <<>>
    THEN [total_items |-> <<json.total_items>>,
          page_count |-> <<json.page_count>>]
    ELSE [total_items |-> kept_items, page_count |-> kept_count]

LastPageEarly(p, count) == p + 1 >= count

\* line 110
LastPage(p, count) == p >= count

\* line 150
AllPresent(booking) ==
    LET values == <<booking.id, booking.arrival, booking.departure,
                    booking.email, booking.guest_name, booking.price>>
    IN  \A i \in 1..Len(values) : values[i] # <<>>

\* line 151
BookingTuple(booking) ==
    <<booking.id[1], booking.arrival[1], booking.departure[1],
      booking.email[1], booking.guest_name[1], booking.price[1]>>

\* lines 146-147
Opened(apartments, name) ==
    IF \E k \in 1..Len(apartments) : apartments[k].apartment = name
    THEN apartments
    ELSE Append(apartments, [apartment |-> name, bookings |-> <<>>])

\* lines 150-151
Added(apartments, booking) ==
    IF AllPresent(booking)
    THEN [k \in 1..Len(apartments) |->
            IF apartments[k].apartment = booking.apartment.name
            THEN [apartments[k] EXCEPT
                    !.bookings = Append(@, BookingTuple(booking))]
            ELSE apartments[k]]
    ELSE apartments

\* get_bookings_by_apartment, lines 145-151 with the key created only for
\* a booking that passes the filter
RECURSIVE GroupKeptOnly(_, _)
GroupKeptOnly(apartments, bs) ==
    IF bs = <<>> THEN apartments
    ELSE GroupKeptOnly(
            IF AllPresent(Head(bs))
            THEN Added(Opened(apartments, Head(bs).apartment.name), Head(bs))
            ELSE apartments,
            Tail(bs))

\* lines 143-153
RECURSIVE GroupByApartment(_, _)
GroupByApartment(apartments, bs) ==
    IF bs = <<>> THEN apartments
    ELSE GroupByApartment(
            Added(Opened(apartments, Head(bs).apartment.name), Head(bs)),
            Tail(bs))

(***************************************************************************)
(* BookingListFormatter                                                    *)
(***************************************************************************)
\* line 63: the loop unpacks every tuple of a non-empty list into five names
BookingListRaises(d) ==
    \E i \in 1..Len(d) : \E k \in 1..Len(d[i].bookings) :
        ~Unpacks(d[i].bookings[k])

(***************************************************************************)
(* Inputs                                                                  *)
(***************************************************************************)
\* 2023-12-11, a Monday: its target window is 2023-12-25 .. 2023-12-31
BaseToday == Strptime(<<2023, 12, 11>>)

\* arrival dates of the enumerated bookings: 2023-12-31 .. 2024-01-02
Arrivals ==
    {Strptime(<<2023, 12, 31>>), Strptime(<<2024, 1, 1>>), Strptime(<<2024, 1, 2>>)}

UnitArrivals == {Strptime(<<2023, 12, 31>>), Strptime(<<2024, 1, 1>>)}

GuestProfiles ==
    { [email |-> "ann@example.com", name |-> "Ann", price |-> 500],
      [email |-> "bob@example.com", name |-> "Bob", price |-> 300] }

\* departure minus arrival, in days; -1 is a departure before the arrival
Stays == {-1, 0, 1, 2}

UnitStays == {1}

\* a five-day stay: 2024-01-01 .. 2024-01-05 for a total price of 500
FiveDayStay ==
    <<(<<2024, 1, 1>>), (<<2024, 1, 5>>), "ann@example.com", "Ann", 500>>

BookingsFrom(arrivals, stays) ==
    { <<Strftime(a), Strftime(a + l), g.email, g.name, g.price>> :
        a \in arrivals, l \in stays, g \in GuestProfiles }

RichBookings == BookingsFrom(Arrivals, Stays) \cup {FiveDayStay}

UnitBookings == BookingsFrom(UnitArrivals, UnitStays)

SeqsUpTo(S, n) == UNION {[1..k -> S] : k \in 0..n}

ApartmentName(i) == <<"Apartment", i>>

\* two Mondays: their windows are 2023-12-25 .. 31 and 2024-01-01 .. 07
Weeks == {BaseToday, BaseToday + 7}

\* nothing fetched, nothing cached, nothing raised
RunIdle ==
    /\ cache = EmptyDict
    /\ requests = <<>>
    /\ result = NoResult
    /\ page = 1
    /\ all_bookings = <<>>
    /\ total_items = <<>>
    /\ page_count = <<>>
    /\ reservations = <<>>
    /\ raised = "none"

Idle ==
    /\ pc = "start"
    /\ idx = 0
    /\ date_range = NoRange
    /\ bookings = <<>>
    /\ occupied_days = EmptyDict
    /\ events = <<>>
    /\ report = <<>>
    /\ sent = <<>>

\* one unit with a booking list drawn from the rich candidate set
InitAnalysis ==
    /\ today \in Weeks
    /\ \E bs \in SeqsUpTo(RichBookings, MaxBookings) :
          data = <<[apartment |-> ApartmentName(1), bookings |-> bs]>>

\* several units sharing at most MaxBookings bookings
InitUnits ==
    /\ today \in Weeks
    /\ \E k \in 0..MaxUnits :
          \E ls \in [1..k -> SeqsUpTo(UnitBookings, MaxBookings)] :
             /\ TotalLen(ls) <= MaxBookings
             /\ data = [i \in 1..k |->
                           [apartment |-> ApartmentName(i), bookings |-> ls[i]]]

\* every weekday and several months of "today", no unit
\* stays at the two ends of the window of BaseToday: one that ends on its
\* Sunday, one that begins on its Monday; and a stay inside the window whose
\* departure lies two days before its arrival
WindowEdgeStays ==
    {<<(<<2023, 12, 30>>), (<<2023, 12, 31>>), "bob@example.com", "Bob", 300>>,
     <<(<<2023, 12, 25>>), (<<2023, 12, 27>>), "ann@example.com", "Ann", 500>>,
     <<(<<2023, 12, 28>>), (<<2023, 12, 26>>), "ann@example.com", "Ann", 500>>}

InitWindowEdge ==
    /\ today \in Weeks
    /\ \E bs \in SeqsUpTo(WindowEdgeStays, MaxBookings) :
          data = <<[apartment |-> ApartmentName(1), bookings |-> bs]>>

InitCalendar ==
    /\ today \in BaseToday..(BaseToday + MaxTodaySpan)
    /\ data = <<>>

\* format called on booking tuples of the documented shape, outside a run
Init ==
    /\ Idle
    /\ RunIdle
    /\ step = "format"
    /\ pages = <<>>
    /\ drift = 0
    /\ smtp = <<>>
    /\ (InitAnalysis \/ InitUnits \/ InitWindowEdge \/ InitCalendar)

(***************************************************************************)
(* UnoccupiedDaysFormatter.format, step by step                            *)
(***************************************************************************)
\* lines 63-64: today and the target window
FormatBegin ==
    /\ step \in {"format", "unoccupied"}
    /\ pc = "start"
    /\ date_range' = GetNextNextWeekRange(today)
    /\ pc' = IF data = <<>> THEN "done" ELSE "report"
    /\ idx' = IF data = <<>> THEN 0 ELSE 1
    /\ UNCHANGED <<today, data, bookings, occupied_days, events, report, sent>>
    /\ UNCHANGED runvars

\* lines 66-69: one apartment of the report
FormatApartment ==
    /\ pc = "report"
    /\ \A k \in 1..Len(data[idx].bookings) : Unpacks(data[idx].bookings[k])
    /\ LET unit == data[idx]
           exc == CreateOccupiedDaysDictRaises(unit.bookings)
           occ == CreateOccupiedDaysDict(unit.bookings)
           evs == EventsOf(occ, date_range)
       IN  IF exc # "none"
           THEN /\ pc' = "raised"
                /\ raised' = exc
                /\ step' = IF step = "unoccupied" THEN "crashed" ELSE step
                /\ UNCHANGED <<bookings, occupied_days, events, report, idx>>
           ELSE /\ bookings' = unit.bookings
                /\ occupied_days' = occ
                /\ events' = evs
                /\ report' = Append(report, [apartment |-> unit.apartment,
                                             events |-> evs])
                /\ pc' = IF idx = Len(data) THEN "send" ELSE "report"
                /\ idx' = IF idx = Len(data) THEN 1 ELSE idx + 1
                /\ UNCHANGED <<step, raised>>
    /\ UNCHANGED <<today, data, date_range, sent>>
    /\ UNCHANGED <<pages, drift, smtp, cache, requests, result, page,
                   all_bookings, total_items, page_count, reservations>>

\* the email loop going through the apartments from the last to the first
(***************************************************************************)
(* EmailSender.send_email.  smtp lists the outcomes of the coming SMTP      *)
(* sessions, one per call; a call beyond the list succeeds.                 *)
(***************************************************************************)
SmtpOutcomes == {"ok", "connect", "starttls", "login"}

\* the outcome of the SMTP session of the k-th call of send_email
Session(k) == IF k \in DOMAIN smtp THEN smtp[k] ELSE "ok"

\* lines 84-86: what the session raises inside the try block
SmtpRaises(outcome) ==
    CASE outcome = "connect" -> "ConnectionRefusedError"
      [] outcome = "starttls" -> "SMTPNotSupportedError"
      [] outcome = "login" -> "SMTPAuthenticationError"
      [] OTHER -> "none"

\* the classes derived from smtplib.SMTPException
SMTPExceptions == {"SMTPNotSupportedError", "SMTPAuthenticationError"}

\* the classes derived from Exception
Exceptions == SMTPExceptions \cup {"ConnectionRefusedError"}

\* line 92 with the clause "except smtplib.SMTPException"
SendEmailCatchesSmtpOnly(exc) == exc \in SMTPExceptions

\* line 92: "except Exception"
SendEmailCatches(exc) == exc \in Exceptions

\* the exception that leaves the k-th call of send_email, "none" when it
\* returns
Escapes(k) ==
    LET exc == SmtpRaises(Session(k))
    IN  IF exc = "none" \/ SendEmailCatches(exc) THEN "none" ELSE exc

\* the number of calls made for the emails of one unit when sent calls were
\* made before: all of them, or up to the first call an exception leaves
Attempted(before, count) ==
    LET escaping == {j \in 1..count : Escapes(before + j) # "none"}
    IN  IF escaping = {} THEN count
        ELSE CHOOSE j \in escaping : \A i \in escaping : j <= i

\* format lines 71-76, one unit: send_email is called for the emails in
\* order; an exception that leaves a call leaves format and, not being a
\* SmoobuAPIError, run
SendEmails(emails) ==
    LET made == Attempted(Len(sent), Len(emails))
        exc == IF made = 0 THEN "none" ELSE Escapes(Len(sent) + made)
    IN  /\ sent' = sent \o SubSeq(emails, 1, made)
        /\ pc' = IF exc # "none" THEN "raised"
                 ELSE IF idx = Len(data) THEN "done" ELSE "send"
        /\ idx' = IF exc # "none" THEN idx
                  ELSE IF idx = Len(data) THEN 0 ELSE idx + 1
        /\ raised' = IF exc # "none" THEN exc ELSE raised
        /\ step' = IF exc # "none" /\ step = "unoccupied" THEN "crashed"
                   ELSE step

SendApartmentReversed ==
    /\ pc = "send"
    /\ LET unit == data[Len(data) + 1 - idx]
           occ == CreateOccupiedDaysDict(unit.bookings)
           evs == EventsOf(occ, date_range)
       IN  /\ bookings' = unit.bookings
           /\ occupied_days' = occ
           /\ events' = evs
           /\ SendEmails(SendEmailsForApartment(unit.apartment, evs))
    /\ UNCHANGED <<today, data, date_range, report>>
    /\ UNCHANGED <<pages, drift, smtp, cache, requests, result, page,
                   all_bookings, total_items, page_count, reservations>>

\* lines 72-74: one apartment of the email loop
SendApartment ==
    /\ pc = "send"
    /\ \A k \in 1..Len(data[idx].bookings) : Unpacks(data[idx].bookings[k])
    /\ LET unit == data[idx]
           occ == CreateOccupiedDaysDict(unit.bookings)
           evs == EventsOf(occ, date_range)
       IN  /\ bookings' = unit.bookings
           /\ occupied_days' = occ
           /\ events' = evs
           /\ SendEmails(SendEmailsForApartment(unit.apartment, evs))
    /\ UNCHANGED <<today, data, date_range, report>>
    /\ UNCHANGED <<pages, drift, smtp, cache, requests, result, page,
                   all_bookings, total_items, page_count, reservations>>

Next == FormatBegin \/ FormatApartment \/ SendApartment

Spec == Init /\ [][Next]_vars

\* format called on every day of the span of days, and on the units
InitDates ==
    /\ Idle
    /\ RunIdle
    /\ step = "format"
    /\ pages = <<>>
    /\ drift = 0
    /\ smtp = <<>>
    /\ (InitCalendar \/ InitUnits)

SpecDates == InitDates /\ [][Next]_vars

\* format called on the units while the SMTP sessions of the first two calls
\* of send_email end in any of the outcomes
InitMail ==
    /\ Idle
    /\ RunIdle
    /\ step = "format"
    /\ pages = <<>>
    /\ drift = 0
    /\ smtp \in [{1, 2} -> SmtpOutcomes]
    /\ InitUnits

SpecMail == InitMail /\ [][Next]_vars

(***************************************************************************)
(* The bookings the API serves                                             *)
(***************************************************************************)
\* a booking of the API: its apartment and the field the API sends as null
Kinds == [apartment : 1..2, missing : {"none", "email", "price"}]

BookingJson(id, kind) ==
    ("id" :> <<id>>)
    @@ ("reference-id" :> <<>>)
    @@ ("guest-name" :> <<"Ann">>)
    @@ ("email" :> IF kind.missing = "email" THEN <<>>
                   ELSE <<"ann@example.com">>)
    @@ ("arrival" :> << <<2024, 1, 1>> >>)
    @@ ("departure" :> << <<2024, 1, 2>> >>)
    @@ ("price" :> IF kind.missing = "price" THEN <<>> ELSE <<500>>)
    @@ ("apartment" :> [id |-> kind.apartment,
                        name |-> ApartmentName(kind.apartment)])
    @@ ("channel" :> [id |-> 1, name |-> "Direct"])

RECURSIVE Sum(_)
Sum(sizes) == IF sizes = <<>> THEN 0 ELSE Head(sizes) + Sum(Tail(sizes))

\* the ways the API splits n bookings into pages: no page at all or one
\* empty page for no booking, up to MaxPages non-empty pages otherwise
Splits(n) ==
    IF n = 0 THEN {<<>>, <<0>>}
    ELSE {sizes \in SeqsUpTo(1..n, MaxPages) : Sum(sizes) = n}

\* the pages holding the bookings of kinds ks; booking ids count up
\* through the pages
ApiPages(ks, sizes) ==
    [p \in 1..Len(sizes) |->
        [i \in 1..sizes[p] |->
            BookingJson(Sum(SubSeq(sizes, 1, p - 1)) + i,
                        ks[Sum(SubSeq(sizes, 1, p - 1)) + i])]]

\* SmoobuApp.run is about to start
InitRun ==
    /\ Idle
    /\ RunIdle
    /\ step = "user_info"
    /\ today = BaseToday
    /\ data = <<>>
    /\ \E ks \in SeqsUpTo(Kinds, MaxBookings) :
          \E sizes \in Splits(Len(ks)) : pages = ApiPages(ks, sizes)
    /\ drift = 0
    /\ smtp = <<>>

(***************************************************************************)
(* SmoobuApp.run, step by step                                             *)
(***************************************************************************)
\* an except clause matching the class SmoobuAPIError but not its subclasses
CaughtOnlyBase(exc) == exc = "SmoobuAPIError"

\* line 79: the exceptions the except clause of run catches
Caught(exc) == IsSmoobuAPIError(exc)

\* lines 79-83: an exception raised inside the try block ends it; run
\* returns when the exception is caught and is left by it otherwise
Raise(exc) ==
    /\ raised' = exc
    /\ step' = IF Caught(exc) THEN "returned" ELSE "crashed"

\* lines 68-69: get_user_info and its report
RunUserInfo ==
    /\ step = "user_info"
    /\ \E outcome \in Outcomes :
          /\ GetEffect(MeEndpoint, outcome)
          /\ IF GetResult(cache, MeEndpoint, outcome).raised # "none"
             THEN Raise(GetResult(cache, MeEndpoint, outcome).raised)
             ELSE step' = "reservations" /\ raised' = raised
    /\ UNCHANGED <<pages, drift, smtp, page, all_bookings, total_items, page_count,
                   reservations>>
    /\ UNCHANGED fmtvars

\* get_reservations lines 87-118: one page of the loop, called from run
\* line 71 (step "reservations") and from get_bookings_by_apartment line 142
\* (step "bookings"); after the last page the caller goes on: lines 71-72
\* keep and print the reservations, lines 143-153 and 74 group them
GetReservationsPage ==
    /\ step \in {"reservations", "bookings"}
    /\ \E outcome \in Outcomes :
        LET endpoint == ReservationsEndpoint(FetchRange(today).start_date,
                                             FetchRange(today).end_date, page)
            got == GetResult(cache, endpoint, outcome)
            json == got.value[1]
            all == all_bookings \o BookingDTOs(json.bookings)
            totals == FirstPageTotals(total_items, page_count, json)
            items == totals.total_items
            count == totals.page_count
        IN  /\ GetEffect(endpoint, outcome)
            /\ IF got.raised # "none"
               THEN /\ Raise(got.raised)
                    /\ UNCHANGED <<page, all_bookings, total_items,
                                   page_count, reservations, data>>
               ELSE IF ~LastPage(page, count[1])
               THEN /\ page' = page + 1
                    /\ all_bookings' = all
                    /\ total_items' = items
                    /\ page_count' = count
                    /\ UNCHANGED <<step, raised, reservations, data>>
               ELSE /\ page' = 1
                    /\ all_bookings' = <<>>
                    /\ total_items' = <<>>
                    /\ page_count' = <<>>
                    /\ raised' = raised
                    /\ IF step = "reservations"
                       THEN /\ reservations' =
                                  <<[total_items |-> items[1],
                                     bookings |-> all]>>
                            /\ step' = "bookings"
                            /\ data' = data
                       ELSE /\ data' = GroupByApartment(<<>>, all)
                            /\ step' = "booking_list"
                            /\ reservations' = reservations
    /\ UNCHANGED <<today, pc, idx, date_range, bookings, occupied_days,
                   events, report, sent, pages, drift, smtp>>

\* the position in requests of the request whose response is cached
StoredAt(endpoint) ==
    CHOOSE i \in 1..Len(requests) :
        /\ requests[i] = Request("GET", endpoint, Ok)
        /\ \A j \in (i + 1)..Len(requests) :
              requests[j] # Request("GET", endpoint, Ok)

\* line 52: every entry lives for the same TTL, so the entry stored first
\* is the first to expire
Oldest ==
    CHOOSE endpoint \in DOMAIN cache :
        \A other \in DOMAIN cache : StoredAt(endpoint) <= StoredAt(other)

\* the TTL of the oldest cache entry runs out while get is still being
\* called
CacheExpire ==
    /\ step \in {"reservations", "bookings", "client"}
    /\ cache # EmptyDict
    /\ cache' = [k \in DOMAIN cache \ {Oldest} |-> cache[k]]
    /\ UNCHANGED <<step, pages, drift, smtp, requests, result, page, all_bookings,
                   total_items, page_count, reservations, raised>>
    /\ UNCHANGED fmtvars

\* line 75: BookingListFormatter.format; its ValueError is no SmoobuAPIError
RunBookingList ==
    /\ step = "booking_list"
    /\ IF BookingListRaises(data) THEN Raise("ValueError")
       ELSE step' = "unoccupied" /\ raised' = raised
    /\ UNCHANGED <<pages, drift, smtp, cache, requests, result, page, all_bookings,
                   total_items, page_count, reservations>>
    /\ UNCHANGED fmtvars

\* lines 77 and 83: format has returned and run ends
RunReturn ==
    /\ step = "unoccupied"
    /\ pc = "done"
    /\ step' = "returned"
    /\ UNCHANGED <<pages, drift, smtp, cache, requests, result, page, all_bookings,
                   total_items, page_count, reservations, raised>>
    /\ UNCHANGED fmtvars

NextRun ==
    \/ RunUserInfo
    \/ GetReservationsPage
    \/ CacheExpire
    \/ RunBookingList
    \/ FormatBegin
    \/ FormatApartment
    \/ SendApartment
    \/ RunReturn

SpecRun == InitRun /\ [][NextRun]_vars

\* a run against a server whose totals move while the pages are fetched:
\* bookings of one unit, with and without an e-mail address
PagedKinds == {[apartment |-> 1, missing |-> "none"],
               [apartment |-> 1, missing |-> "email"]}

InitPaged ==
    /\ Idle
    /\ RunIdle
    /\ step = "user_info"
    /\ today = BaseToday
    /\ data = <<>>
    /\ \E ks \in SeqsUpTo(PagedKinds, MaxBookings) :
          \E sizes \in Splits(Len(ks)) : pages = ApiPages(ks, sizes)
    /\ drift \in Drifts
    /\ smtp = <<>>

SpecPaged == InitPaged /\ [][NextRun]_vars

(***************************************************************************)
(* SmoobuAPIClient called directly: any sequence of up to MaxCalls get and *)
(* post calls                                                              *)
(***************************************************************************)
ClientEndpoints ==
    {MeEndpoint}
    \cup {ReservationsEndpoint(Strftime(BaseToday), Strftime(BaseToday + 21),
                               p) : p \in 1..2}

InitClient ==
    /\ Idle
    /\ RunIdle
    /\ step = "client"
    /\ today = BaseToday
    /\ data = <<>>
    /\ drift = 0
    /\ smtp = <<>>
    /\ pages = ApiPages(<<[apartment |-> 1, missing |-> "none"],
                          [apartment |-> 2, missing |-> "email"]>>, <<1, 1>>)

\* get, lines 86-104
ClientGet ==
    /\ step = "client"
    /\ result.n < MaxCalls
    /\ \E endpoint \in ClientEndpoints : \E outcome \in Outcomes :
          GetEffect(endpoint, outcome)
    /\ UNCHANGED <<step, pages, drift, smtp, page, all_bookings, total_items, page_count,
                   reservations, raised>>
    /\ UNCHANGED fmtvars

\* post, lines 124-137
ClientPost ==
    /\ step = "client"
    /\ result.n < MaxCalls
    /\ \E outcome \in Outcomes : PostEffect(MessageEndpoint(1), outcome)
    /\ UNCHANGED <<step, pages, drift, smtp, page, all_bookings, total_items, page_count,
                   reservations, raised>>
    /\ UNCHANGED fmtvars

NextClient == ClientGet \/ ClientPost \/ CacheExpire

SpecClient == InitClient /\ [][NextClient]_vars

(***************************************************************************)
(* Every way format is reached: inside a run, on the map the run fetched,  *)
(* and on a map of booking tuples of the documented shape                  *)
(***************************************************************************)
SpecAll == (Init \/ InitRun) /\ [][NextRun]_vars

(***************************************************************************)
(* Properties.  bookings, occupied_days and events are the argument, the   *)
(* map and the result of the most recent _analyze_bookings call.           *)
(***************************************************************************)
Arrival(b) == Strptime(b[1])

Departure(b) == Strptime(b[2])

Covers(b, d) == Arrival(b) <= d /\ d <= Departure(b)

CoveredLater(k, d) ==
    \E j \in (k + 1)..Len(bookings) : Covers(bookings[j], d)

WindowDates == date_range.start.date..date_range.end.date

IsEdge(d) ==
    d \in DOMAIN occupied_days
    /\ occupied_days[d].type \in {"arrival", "departure"}

EventsOn(d) == {i \in 1..Len(events) : events[i].date.date = d}

\* x = p / n for a float x and integers p, n
IsQuotient(x, p, n) == x.num * n = p * x.den

\* C1 as stated: every date of every booking [A, D] with A <= D is a key of
\* the occupied-day map and its per-day price is price(B) / (D - A + 1).
C1_PerDayPriceOfEveryBooking ==
    \A k \in 1..Len(bookings) :
        LET b == bookings[k]
        IN  Arrival(b) <= Departure(b) =>
              \A d \in Arrival(b)..Departure(b) :
                  /\ d \in DOMAIN occupied_days
                  /\ IsQuotient(occupied_days[d].price, b[5],
                                Departure(b) - Arrival(b) + 1)

\* C1 amended: every date of every booking [A, D] with A <= D is a key of the
\* occupied-day map; its per-day price is price(B) / (D - A + 1) unless a
\* later booking of the list also covers that date.
C1_PerDayPriceOfLastCoveringBooking ==
    \A k \in 1..Len(bookings) :
        LET b == bookings[k]
        IN  Arrival(b) <= Departure(b) =>
              \A d \in Arrival(b)..Departure(b) :
                  /\ d \in DOMAIN occupied_days
                  /\ ~CoveredLater(k, d) =>
                        IsQuotient(occupied_days[d].price, b[5],
                                   Departure(b) - Arrival(b) + 1)

C1_Witness ==
    /\ pc = "done"
    /\ \E k \in 1..Len(bookings) :
          /\ Departure(bookings[k]) >= Arrival(bookings[k]) + 2
          /\ \E d \in Arrival(bookings[k])..Departure(bookings[k]) :
                CoveredLater(k, d)
          /\ \E d \in Arrival(bookings[k])..Departure(bookings[k]) :
                /\ ~CoveredLater(k, d)
                /\ occupied_days[d].price = Float(bookings[k][5],
                       Departure(bookings[k]) - Arrival(bookings[k]) + 1)

\* C2: the events are sorted ascending by date; every event lies in the
\* target window on a date whose role in the occupied-day map is arrival or
\* departure; a window date whose role is occupied has no event.
C2_EventsSortedEdgesInWindow ==
    /\ \A i \in 1..(Len(events) - 1) :
          ~DatetimeLess(events[i + 1].date, events[i].date)
    /\ \A i \in 1..Len(events) :
          /\ events[i].date.date \in WindowDates
          /\ IsEdge(events[i].date.date)
          /\ events[i].type = occupied_days[events[i].date.date].type
    /\ \A d \in WindowDates :
          (d \in DOMAIN occupied_days /\ occupied_days[d].type = "occupied")
             => EventsOn(d) = {}

C2_Witness ==
    /\ pc = "done"
    /\ Len(events) >= 2
    /\ \E d \in WindowDates :
          d \in DOMAIN occupied_days /\ occupied_days[d].type = "occupied"
    /\ \E d \in DOMAIN occupied_days : d \notin WindowDates /\ IsEdge(d)

\* C3: each window date whose role is arrival or departure has exactly one
\* event and every other window date has none; without such a date the
\* event list is empty.
C3_OneEventPerEdgeDate ==
    /\ \A d \in WindowDates :
          Cardinality(EventsOn(d)) = IF IsEdge(d) THEN 1 ELSE 0
    /\ (\A d \in WindowDates : ~IsEdge(d)) => events = <<>>

C3_Witness ==
    /\ pc = "done"
    /\ Len(bookings) = 2
    /\ IsEdge(date_range.end.date)
    /\ IsEdge(date_range.end.date + 1)
    /\ Len(events) = 1
    /\ events[1].date = date_range.end

\* C4: free_days of every event is 0, 1 or 2, however long the gap is.
C4_FreeDaysBetween0And2 ==
    \A i \in 1..Len(events) : events[i].free_days \in {0, 1, 2}

C4_Witness ==
    /\ pc = "done"
    /\ \E i \in 1..Len(events) :
          /\ events[i].type = "arrival"
          /\ events[i].free_days = 2
          /\ (events[i].date.date - 3) \notin DOMAIN occupied_days
    /\ \E i \in 1..Len(events) : events[i].free_days = 0

\* C5: free_days of an arrival on d is the number of dates among d-1, d-2
\* missing from the map, of a departure on d the number among d+1, d+2.
C5_FreeDaysCountsAdjacentSide ==
    \A i \in 1..Len(events) :
        LET d == events[i].date.date
        IN  /\ events[i].type = "arrival" =>
                 events[i].free_days =
                    Cardinality({d - 1, d - 2} \ DOMAIN occupied_days)
            /\ events[i].type = "departure" =>
                 events[i].free_days =
                    Cardinality({d + 1, d + 2} \ DOMAIN occupied_days)

C5_Witness ==
    /\ pc = "done"
    /\ \E i \in 1..Len(events) :
          /\ events[i].type = "arrival"
          /\ events[i].free_days = 2
          /\ {events[i].date.date + 1, events[i].date.date + 2}
                \subseteq DOMAIN occupied_days
    /\ \E i \in 1..Len(events) :
          /\ events[i].type = "departure"
          /\ events[i].free_days = 2
          /\ {events[i].date.date - 1, events[i].date.date - 2}
                \subseteq DOMAIN occupied_days

AdjacentPairs ==
    {p \in (1..Len(bookings)) \X (1..Len(bookings)) :
        /\ Arrival(bookings[p[1]]) <= Departure(bookings[p[1]])
        /\ Arrival(bookings[p[2]]) <= Departure(bookings[p[2]])
        /\ Arrival(bookings[p[2]]) = Departure(bookings[p[1]]) + 1}

BoundaryEventsShowNoFreeDay(first, second) ==
    \A i \in 1..Len(events) :
        /\ (events[i].type = "departure"
            /\ events[i].date.date = Departure(first))
              => events[i].free_days = 0
        /\ (events[i].type = "arrival"
            /\ events[i].date.date = Arrival(second))
              => events[i].free_days = 0

\* C6 as stated: when a booking arrives the day after another departs, the
\* departure event of the first and the arrival event of the second both
\* have free_days = 0.
C6_AdjacentBookingsNoFreeDay ==
    \A p \in AdjacentPairs :
        BoundaryEventsShowNoFreeDay(bookings[p[1]], bookings[p[2]])

\* C6 amended: the same, for two bookings that each span at least two dates
\* (arrival before departure).
C6_AdjacentStaysNoFreeDay ==
    \A p \in AdjacentPairs :
        (/\ Arrival(bookings[p[1]]) < Departure(bookings[p[1]])
         /\ Arrival(bookings[p[2]]) < Departure(bookings[p[2]]))
           => BoundaryEventsShowNoFreeDay(bookings[p[1]], bookings[p[2]])

C6_Witness ==
    /\ pc = "done"
    /\ \E p \in AdjacentPairs :
          /\ Arrival(bookings[p[1]]) < Departure(bookings[p[1]])
          /\ Arrival(bookings[p[2]]) < Departure(bookings[p[2]])
          /\ \E i \in 1..Len(events) :
                /\ events[i].type = "departure"
                /\ events[i].date.date = Departure(bookings[p[1]])
                /\ events[i].guest_email = bookings[p[1]][3]
          /\ \E i \in 1..Len(events) :
                /\ events[i].type = "arrival"
                /\ events[i].date.date = Arrival(bookings[p[2]])
                /\ events[i].guest_email = bookings[p[2]][3]

\* C7: the window starts at midnight of today + (14 - today.weekday()) days,
\* ends at midnight six days later and so covers exactly 7 calendar dates.
C7_WindowIsSevenDaysFromWeekdayRule ==
    pc # "start" =>
        /\ date_range.start = [date |-> today + (14 - Weekday(today)), time |-> 0]
        /\ date_range.end = [date |-> date_range.start.date + 6, time |-> 0]
        /\ Cardinality(WindowDates) = 7

C7_Witness ==
    /\ pc = "done"
    /\ Weekday(today) = 6
    /\ Strftime(today)[2] = 2
    /\ Strftime(date_range.end.date)[2] = 3

\* C8: offer_price of every event is its per-day price times 0.57 rounded to
\* whole cents, whatever the event type; a per-day price of 100.00 gives 57.00.
C8_OfferPriceIsRoundedDiscount ==
    \A i \in 1..Len(events) :
        LET p == events[i].price
            o == events[i].offer_price
            diff == (p.num * 57 * o.den) - (o.num * 100 * p.den)
        IN  /\ 100 % o.den = 0
            /\ 2 * (IF diff < 0 THEN -diff ELSE diff) <= p.den * o.den
            /\ p = [num |-> 100, den |-> 1] => o = [num |-> 57, den |-> 1]

C8_Witness ==
    /\ pc = "done"
    /\ bookings = <<FiveDayStay>>
    /\ Len(events) = 2
    /\ events[1].type = "arrival"
    /\ events[1].date.date = Strptime(<<2024, 1, 1>>)
    /\ events[1].free_days = 2
    /\ events[1].price = [num |-> 100, den |-> 1]
    /\ events[1].offer_price = [num |-> 57, den |-> 1]
    /\ events[2].type = "departure"
    /\ events[2].offer_price = [num |-> 57, den |-> 1]

\* C9 as stated: the date of a booking with arrival = departure is tagged
\* arrival in the map and its per-day price is the booking's total price.
C9_ZeroNightTaggedArrival ==
    \A k \in 1..Len(bookings) :
        LET b == bookings[k]
        IN  Arrival(b) = Departure(b) =>
              /\ Arrival(b) \in DOMAIN occupied_days
              /\ occupied_days[Arrival(b)].type = "arrival"
              /\ IsQuotient(occupied_days[Arrival(b)].price, b[5], 1)

\* C9 amended: the same, unless a later booking of the list also covers
\* that date.
C9_ZeroNightTaggedArrivalUnlessCoveredLater ==
    \A k \in 1..Len(bookings) :
        LET b == bookings[k]
        IN  (Arrival(b) = Departure(b) /\ ~CoveredLater(k, Arrival(b))) =>
              /\ Arrival(b) \in DOMAIN occupied_days
              /\ occupied_days[Arrival(b)].type = "arrival"
              /\ IsQuotient(occupied_days[Arrival(b)].price, b[5], 1)

C9_Witness ==
    /\ pc = "done"
    /\ \E k \in 1..Len(bookings) :
          /\ Arrival(bookings[k]) = Departure(bookings[k])
          /\ ~CoveredLater(k, Arrival(bookings[k]))
          /\ occupied_days[Arrival(bookings[k])].type = "arrival"
          /\ \E i \in 1..Len(events) :
                /\ events[i].date.date = Arrival(bookings[k])
                /\ events[i].type = "arrival"
                /\ events[i].price = [num |-> bookings[k][5], den |-> 1]

\* C10: a unit with an empty booking list has an empty event list, in the
\* report and in the email loop, and no email is sent for it.
C10_EmptyUnitNoEventsNoEmail ==
    /\ (report # <<>> /\ bookings = <<>>) => events = <<>>
    /\ \A i \in 1..Len(data) :
          data[i].bookings = <<>> =>
             /\ \A k \in 1..Len(report) :
                   report[k].apartment = data[i].apartment
                      => report[k].events = <<>>
             /\ \A k \in 1..Len(sent) :
                   sent[k].apartment # data[i].apartment

C10_Witness ==
    /\ pc = "done"
    /\ Len(data) = 2
    /\ data[2].bookings = <<>>
    /\ bookings = <<>>
    /\ events = <<>>
    /\ sent # <<>>

(***************************************************************************)
(* C11: for a unit, send_email is called exactly once for every distinct   *)
(* guest email that has at least one event of the unit in the window,      *)
(* addressed to that email, however many events the guest has; a guest     *)
(* without an event in the window gets no email.                           *)
(***************************************************************************)
\* the units the email loop has already handled
UnitsSent ==
    IF pc = "done" THEN 1..Len(data)
    ELSE IF pc = "send" THEN 1..(idx - 1) ELSE {}

\* the emails sent for a unit to an address
SentTo(apartment, email) ==
    {k \in 1..Len(sent) : sent[k].apartment = apartment /\ sent[k].to = email}

GuestEmails == {g.email : g \in GuestProfiles}

HasEvent(evs, email) == \E k \in 1..Len(evs) : evs[k].guest_email = email

C11_OneEmailPerGuestWithEvents ==
    /\ \A i \in UnitsSent : \A email \in GuestEmails :
          Cardinality(SentTo(data[i].apartment, email)) =
              IF HasEvent(report[i].events, email) THEN 1 ELSE 0
    /\ \A k \in 1..Len(sent) :
          /\ sent[k].to \in GuestEmails
          /\ \E i \in UnitsSent : sent[k].apartment = data[i].apartment

\* a guest with an arrival and a departure event got one email, and another
\* guest of the same unit, without an event in the window, got none
C11_Witness ==
    /\ pc = "done"
    /\ Len(data) = 1
    /\ Len(events) = 2
    /\ events[1].guest_email = "ann@example.com"
    /\ events[2].guest_email = "ann@example.com"
    /\ \E k \in 1..Len(bookings) : bookings[k][3] = "bob@example.com"
    /\ Len(sent) = 1
    /\ sent[1].to = "ann@example.com"
    /\ sent[1].arrival_event # <<>>
    /\ sent[1].departure_event # <<>>

(***************************************************************************)
(* C12: every booking tuple get_bookings_by_apartment hands over has       *)
(* exactly five components (arrival, departure, email, guest name, price), *)
(* the shape BookingListFormatter.format and _create_occupied_days_dict    *)
(* unpack, so that the consumers of the map complete without an error.     *)
(* The code appends six components, the booking id first.                  *)
(***************************************************************************)
C12_TuplesHaveFiveComponents ==
    /\ \A i \in 1..Len(data) : \A k \in 1..Len(data[i].bookings) :
          Len(data[i].bookings[k]) = 5
    /\ raised # "ValueError"
    /\ step # "crashed"

(***************************************************************************)
(* C13: get_reservations returns, as one flat list, every booking of the   *)
(* pages 1..page_count of the API response, in page order, none lost and   *)
(* none duplicated; get_bookings_by_apartment drops every booking in which *)
(* one of the six required fields is None, so that no record with a None   *)
(* field is handed on.                                                     *)
(***************************************************************************)
\* the bookings of the pages, one page after the other
RECURSIVE Flat(_)
Flat(ps) == IF ps = <<>> THEN <<>> ELSE Head(ps) \o Flat(Tail(ps))

\* the six required fields of a booking of the API
RequiredKeys == {"id", "arrival", "departure", "email", "guest-name", "price"}

Complete(json) == \A key \in RequiredKeys : json[key] # <<>>

\* the booking ids of the tuples handed on for the units
TupleIds ==
    UNION {{data[i].bookings[k][1] : k \in 1..Len(data[i].bookings)} :
              i \in 1..Len(data)}

C13_AllPagesFlatAndNoneFieldsDropped ==
    /\ reservations # <<>> =>
          LET got == reservations[1].bookings
              served == Flat(pages)
          IN  /\ Len(got) = Len(served)
              /\ \A j \in 1..Len(served) :
                    /\ got[j].id = served[j]["id"]
                    /\ got[j].guest_name = served[j]["guest-name"]
                    /\ got[j].email = served[j]["email"]
                    /\ got[j].arrival = served[j]["arrival"]
                    /\ got[j].departure = served[j]["departure"]
                    /\ got[j].price = served[j]["price"]
                    /\ got[j].apartment = served[j]["apartment"]
    /\ \A j \in 1..Len(Flat(pages)) :
          ~Complete(Flat(pages)[j]) => Flat(pages)[j]["id"][1] \notin TupleIds

\* two pages were fetched and grouped: one booking is kept, one is dropped
C13_Witness ==
    /\ step = "booking_list"
    /\ Len(pages) >= 2
    /\ Len(reservations[1].bookings) = 2
    /\ TupleIds # {}
    /\ \E j \in 1..Len(Flat(pages)) : ~Complete(Flat(pages)[j])

(***************************************************************************)
(* C14: the operations of a run happen strictly in sequence: the fetches   *)
(* (user info, reservations, bookings by apartment) are complete before    *)
(* any unit is analysed and nothing is fetched afterwards; no email is     *)
(* sent before the fetches are complete and the events of its unit are     *)
(* computed; the emails are sent unit by unit in the order of the          *)
(* bookings-by-apartment map.                                              *)
(***************************************************************************)
\* format has begun to work
AnalysisBegun == pc # "start" \/ report # <<>> \/ sent # <<>>

\* the three fetches of run have returned
FetchesComplete ==
    /\ step \in {"unoccupied", "returned"}
    /\ \E k \in 1..Len(requests) : requests[k] = Request("GET", MeEndpoint, Ok)
    /\ reservations # <<>>
    /\ page = 1 /\ all_bookings = <<>>

UnitIndex(apartment) ==
    CHOOSE i \in 1..Len(data) : data[i].apartment = apartment

FetchBeforeAnalysis == (step # "format" /\ AnalysisBegun) => FetchesComplete

EmailsAfterEventsInUnitOrder ==
    /\ sent # <<>> => Len(report) = Len(data)
    /\ \A k \in 1..Len(sent) :
          /\ \E i \in UnitsSent : data[i].apartment = sent[k].apartment
          /\ HasEvent(report[UnitIndex(sent[k].apartment)].events, sent[k].to)
          /\ \A l \in 1..(k - 1) :
                UnitIndex(sent[l].apartment) <= UnitIndex(sent[k].apartment)

NoFetchOnceAnalysisBegun ==
    AnalysisBegun => (requests' = requests /\ cache' = cache /\ data' = data)

C14_FetchThenAnalyseThenSendInUnitOrder ==
    /\ [](FetchBeforeAnalysis /\ EmailsAfterEventsInUnitOrder)
    /\ [][NoFetchOnceAnalysisBegun]_vars

\* a run that fetched two pages besides the user info, then analysed two
\* units and went through the email loop for both
C14_Witness ==
    /\ step = "returned"
    /\ raised = "none"
    /\ pc = "done"
    /\ Len(requests) >= 3
    /\ Len(data) = 2
    /\ Len(report) = 2

(***************************************************************************)
(* C15: when an API call made during SmoobuApp.run fails with an API       *)
(* communication error, run catches the error, skips the remaining steps   *)
(* (no unit is analysed, no offer email is sent), does not retry the       *)
(* failed call, and returns normally.                                      *)
(***************************************************************************)
C15_ApiErrorCaughtRunEndsWithoutRetry ==
    \A k \in 1..Len(requests) :
        requests[k].outcome # Ok =>
            /\ k = Len(requests)
            /\ step = "returned"
            /\ raised = RaisedFor(requests[k].outcome)
            /\ IsSmoobuAPIError(raised)
            /\ pc = "start"
            /\ report = <<>>
            /\ sent = <<>>

\* the second call of get_reservations, made by get_bookings_by_apartment,
\* failed with HTTP 401 after the first one had succeeded
C15_Witness ==
    /\ step = "returned"
    /\ raised = "AuthenticationError"
    /\ reservations # <<>>
    /\ requests[Len(requests)].outcome = HttpError(401)
    /\ pc = "start"

(***************************************************************************)
(* C16: get and post turn every failed request into the SmoobuAPIError     *)
(* category: HTTP status 429 raises RateLimitExceeded, HTTP status 401     *)
(* raises AuthenticationError, every other HTTP error and every network    *)
(* failure raises a plain SmoobuAPIError; nothing else is raised.          *)
(***************************************************************************)
ExpectedException(outcome) ==
    CASE outcome = Ok -> "none"
      [] outcome = HttpError(429) -> "RateLimitExceeded"
      [] outcome = HttpError(401) -> "AuthenticationError"
      [] OTHER -> "SmoobuAPIError"

\* a call that sent a request raises what the request's outcome asks for
RequestRaisesMapped ==
    requests' # requests =>
        /\ requests' = Append(requests, requests'[Len(requests')])
        /\ result'.method = requests'[Len(requests')].method
        /\ result'.endpoint = requests'[Len(requests')].endpoint
        /\ result'.raised = ExpectedException(requests'[Len(requests')].outcome)

C16_FailuresMappedToSmoobuAPIError ==
    /\ [](result.raised \in {"none", "SmoobuAPIError", "RateLimitExceeded",
                             "AuthenticationError"})
    /\ [][RequestRaisesMapped]_vars

\* a get answered 401, a get that lost the connection and a post answered
\* 429
C16_Witness ==
    /\ Len(requests) = 3
    /\ requests[1].method = "GET" /\ requests[1].outcome = HttpError(401)
    /\ requests[2].method = "GET" /\ requests[2].outcome = NetworkError
    /\ requests[3].method = "POST" /\ requests[3].outcome = HttpError(429)
    /\ result.raised = "RateLimitExceeded"

(***************************************************************************)
(* C17: the analysis is deterministic: calls of _analyze_bookings with     *)
(* equal booking lists and the same window return equal event lists;       *)
(* within one format call the events in the report entry of a unit are     *)
(* exactly the events its emails are sent from.                            *)
(***************************************************************************)
\* the unit the email loop handled last
LastUnitSent ==
    IF pc = "done" THEN Len(data) ELSE IF pc = "send" THEN idx - 1 ELSE 0

Covering(d) == {k \in 1..Len(bookings) : Covers(bookings[k], d)}

LastCovering(d) ==
    CHOOSE k \in Covering(d) : \A j \in Covering(d) : j <= k

RoleIn(b, d) ==
    CASE d = Arrival(b) -> "arrival"
      [] d # Arrival(b) /\ d = Departure(b) -> "departure"
      [] OTHER -> "occupied"

BookedDates ==
    UNION {Arrival(bookings[k])..Departure(bookings[k]) :
              k \in 1..Len(bookings)}

C18_SharedDateHoldsLaterBooking ==
    \A d \in BookedDates :
        Cardinality(Covering(d)) >= 2 =>
            LET b == bookings[LastCovering(d)]
            IN  /\ d \in DOMAIN occupied_days
                /\ occupied_days[d].type = RoleIn(b, d)
                /\ occupied_days[d].guest_name = b[4]
                /\ occupied_days[d].guest_email = b[3]
                /\ IsQuotient(occupied_days[d].price, b[5],
                              Departure(b) - Arrival(b) + 1)

\* a same-day turnover of two guests: the date holds the arriving guest
C18_Witness ==
    /\ Len(bookings) = 2
    /\ bookings[1][3] # bookings[2][3]
    /\ Arrival(bookings[1]) < Departure(bookings[1])
    /\ Departure(bookings[1]) = Arrival(bookings[2])
    /\ Arrival(bookings[2]) < Departure(bookings[2])
    /\ occupied_days # EmptyDict
    /\ occupied_days[Arrival(bookings[2])].type = "arrival"
    /\ occupied_days[Arrival(bookings[2])].guest_email = bookings[2][3]

(***************************************************************************)
(* C19: the occupied-day map and the events are rebuilt from scratch on    *)
(* every _analyze_bookings call: the events of a unit depend only on that  *)
(* unit's booking list and the window, never on another unit's bookings or *)
(* on an earlier call, and the call leaves the booking list as it was.     *)
(***************************************************************************)
\* arrival and departure date of every booking of bs
Spans(bs) == [k \in 1..Len(bs) |-> [from |-> Arrival(bs[k]), to |-> Departure(bs[k])]]

CoveringIn(spans, d) ==
    {k \in 1..Len(spans) : spans[k].from <= d /\ d <= spans[k].to}

LastCoveringIn(spans, d) ==
    CHOOSE k \in CoveringIn(spans, d) : \A j \in CoveringIn(spans, d) : j <= k

RoleAt(span, d) ==
    CASE d = span.from -> "arrival"
      [] d # span.from /\ d = span.to -> "departure"
      [] OTHER -> "occupied"

\* the dates of the window on which the last covering booking arrives or
\* departs
EdgeDatesOf(spans) ==
    {d \in WindowDates :
        /\ CoveringIn(spans, d) # {}
        /\ RoleAt(spans[LastCoveringIn(spans, d)], d)
               \in {"arrival", "departure"}}

\* how many of the two days before an arrival, or after a departure, no
\* booking covers
FreeDaysIn(spans, d, role) ==
    LET side == IF role = "arrival" THEN -1 ELSE 1
    IN  Cardinality({i \in {1, 2} : CoveringIn(spans, d + i * side) = {}})

\* evs is what the bookings bs and the window alone determine
EventsFromOwnBookings(bs, evs) ==
    LET spans == Spans(bs)
        edges == EdgeDatesOf(spans)
    IN  /\ {evs[k].date.date : k \in 1..Len(evs)} = edges
        /\ Len(evs) = Cardinality(edges)
        /\ \A k \in 1..Len(evs) :
              LET d == evs[k].date.date
                  last == LastCoveringIn(spans, d)
              IN  /\ evs[k].type = RoleAt(spans[last], d)
                  /\ evs[k].guest_email = bs[last][3]
                  /\ evs[k].guest_name = bs[last][4]
                  /\ evs[k].free_days = FreeDaysIn(spans, d, evs[k].type)

\* the unit _analyze_bookings was last called for
LastAnalysed ==
    IF pc = "report" THEN idx - 1
    ELSE IF pc = "send" /\ idx = 1 THEN Len(data)
    ELSE LastUnitSent

AnalysisFromOwnBookings ==
    /\ LastAnalysed > 0 =>
          /\ bookings = data[LastAnalysed].bookings
          /\ EventsFromOwnBookings(bookings, events)
          /\ DOMAIN occupied_days = BookedDates
    /\ report # <<>> =>
          /\ report[Len(report)].apartment = data[Len(report)].apartment
          /\ pc = "report" \/ (pc = "send" /\ idx = 1) =>
                report[Len(report)].events = events

C19_AnalysisRebuiltPerCall ==
    /\ []AnalysisFromOwnBookings
    /\ [][data' = data]_vars

\* two units with different events, analysed one after the other, twice
C19_Witness ==
    /\ pc = "done"
    /\ Len(data) = 2
    /\ report[1].events # <<>>
    /\ report[2].events # <<>>
    /\ report[1].events[1].guest_email # report[2].events[1].guest_email
    /\ events = report[2].events

(***************************************************************************)
(* C20: get, called for an endpoint that has an unexpired cache entry,     *)
(* returns the cached response and sends no HTTP request; a response is    *)
(* stored only after a successful request, a failed request leaves the     *)
(* cache as it was; the cache is keyed by the endpoint string alone, so    *)
(* two endpoints never share an entry.                                     *)
(***************************************************************************)
\* every entry holds the response to a request for its own key
EntriesKeyedByEndpoint ==
    \A endpoint \in DOMAIN cache : cache[endpoint] = ServerResponse(endpoint)

\* a call of get for a cached endpoint
CachedGetSendsNothing ==
    (/\ result'.n # result.n
     /\ result'.method = "GET"
     /\ result'.endpoint \in DOMAIN cache) =>
        /\ requests' = requests
        /\ cache' = cache
        /\ result'.raised = "none"
        /\ result'.value = <<cache[result'.endpoint]>>

\* the cache changes by the expiry of entries or by storing the response
\* of the successful GET request just sent, under the request's endpoint
CacheChangesOnlyOnSuccess ==
    cache' # cache =>
        \/ /\ requests' = requests
           /\ DOMAIN cache' \subseteq DOMAIN cache
           /\ \A endpoint \in DOMAIN cache' : cache'[endpoint] = cache[endpoint]
        \/ /\ Len(requests') = Len(requests) + 1
           /\ requests'[Len(requests')].method = "GET"
           /\ requests'[Len(requests')].outcome = Ok
           /\ LET endpoint == requests'[Len(requests')].endpoint
              IN  /\ endpoint \notin DOMAIN cache
                  /\ DOMAIN cache' = DOMAIN cache \cup {endpoint}
                  /\ cache'[endpoint] = result'.value[1]
                  /\ \A other \in DOMAIN cache : cache'[other] = cache[other]

C20_CacheHitsAndStoresByEndpoint ==
    /\ []EntriesKeyedByEndpoint
    /\ [][CachedGetSendsNothing /\ CacheChangesOnlyOnSuccess]_vars

\* a failed get left the cache empty, a second get of the endpoint stored
\* its response, a third one was answered from the cache
C20_Witness ==
    /\ result.n = 3
    /\ Len(requests) = 2
    /\ requests[1].outcome = HttpError(500)
    /\ requests[2].outcome = Ok
    /\ requests[1].endpoint = requests[2].endpoint
    /\ Len(requests[2].endpoint) = 5
    /\ result.endpoint = requests[2].endpoint
    /\ result.method = "GET"
    /\ result.endpoint \in DOMAIN cache
    /\ result.value = <<cache[result.endpoint]>>

(***************************************************************************)
(* C21: the pagination loop of get_reservations.                           *)
(***************************************************************************)
\* get_reservations is running its loop
InLoop == step \in {"reservations", "bookings"}

\* the totals the first page reports
FirstPage == PageJson(1)

\* before the first answer no totals are held; afterwards they are those of
\* the first page, whatever later pages report, and the page to request has
\* not passed the first page's page_count
TotalsFromFirstPage ==
    InLoop =>
       /\ page >= 1
       /\ (page = 1) <=> (total_items = <<>>)
       /\ (page = 1) <=> (page_count = <<>>)
       /\ page > 1 =>
             /\ total_items = <<FirstPage.total_items>>
             /\ page_count = <<FirstPage.page_count>>
             /\ page <= FirstPage.page_count
             /\ Len(all_bookings) = TotalLen(SubSeq(pages, 1, page - 1))

\* one pass of the loop: the get call asks for the current page; unless it
\* raises, the loop ends iff the page has reached the first page's
\* page_count, and otherwise goes on with the next page
OnePagePerPass ==
    (InLoop /\ result'.n = result.n + 1) =>
       /\ result'.endpoint = ReservationsEndpoint(FetchRange(today).start_date,
                                                  FetchRange(today).end_date,
                                                  page)
       /\ \/ /\ result'.raised # "none"
             /\ step' \in {"returned", "crashed"}
          \/ /\ result'.raised = "none"
             /\ page >= FirstPage.page_count
             /\ step' = IF step = "reservations" THEN "bookings"
                        ELSE "booking_list"
             /\ page' = 1
             /\ step = "reservations" =>
                   reservations'[1].total_items = FirstPage.total_items
          \/ /\ result'.raised = "none"
             /\ page < FirstPage.page_count
             /\ step' = step
             /\ page' = page + 1

\* C21: for every page_count the first page reports, get_reservations asks
\* for the pages 1, 2, ..., page_count in ascending order, each once (one
\* request when page_count <= 1), holds the total_items and page_count of the
\* first page only, and ends its loop as soon as page >= page_count; the
\* page number grows with every pass and is bounded, so the loop terminates
C21_PagesAscendingOnceTotalsFromFirst ==
    /\ []TotalsFromFirstPage
    /\ [][OnePagePerPass]_vars

\* the first loop ended after two pages although the second page reported
\* other totals than the first
C21_Witness ==
    /\ step = "bookings"
    /\ Len(pages) >= 2
    /\ drift # 0
    /\ reservations # <<>>
    /\ Len(reservations[1].bookings) = TotalLen(pages)
    /\ reservations[1].total_items = TotalLen(pages)
    /\ result.endpoint[5] = Len(pages)

(***************************************************************************)
(* C22, C23: the target window and the range of the fetched reservations.  *)
(***************************************************************************)
\* the first and the last date get_reservations asks the API for
FetchedFrom == Strptime(FetchRange(today).start_date)

FetchedTo == Strptime(FetchRange(today).end_date)

Inspected(event) ==
    IF event.type = "arrival"
    THEN {event.date.date - 1, event.date.date - 2}
    ELSE {event.date.date + 1, event.date.date + 2}

\* C23: for every today and every event in the target window, the two dates
\* _check_free_days inspects (the two days before an arrival, the two days
\* after a departure) lie inside the fetched range [today, today + 21], so
\* no day counts as free only because its bookings were never fetched
C23_InspectedDaysInsideFetchedRange ==
    \A k \in 1..Len(events) :
       \A d \in Inspected(events[k]) : FetchedFrom <= d /\ d <= FetchedTo

(***************************************************************************)
(* C24: a failing SMTP session.                                            *)
(***************************************************************************)
\* the guests of unit i that have an event in the window
GuestsWithEvents(i) ==
    {email \in GuestEmails : HasEvent(report[i].events, email)}

\* the calls of send_email whose SMTP session failed
FailedCalls == {k \in 1..Len(sent) : Session(k) # "ok"}

\* C24: an SMTP connect, TLS or login error while one offer email is sent
\* stays inside send_email: no exception reaches format or run, and the
\* emails of the remaining guests and units are still attempted, whatever
\* the outcomes of the sessions before them
C24_SmtpFailureSwallowed ==
    /\ pc \in {"start", "report", "send", "done"}
    /\ raised = "none"
    /\ step = "format"
    /\ \A i \in UnitsSent : \A email \in GuestsWithEvents(i) :
          \E k \in 1..Len(sent) :
             /\ sent[k].apartment = data[i].apartment
             /\ sent[k].to = email
    /\ pc = "send" => Len(report) = Len(data) /\ idx \in 1..Len(data)

\* the session of the first email could not connect; format still called
\* send_email for a guest of the next unit and came to its end
C24_Witness ==
    /\ pc = "done"
    /\ Len(sent) = 2
    /\ Session(1) = "connect"
    /\ Session(2) = "login"
    /\ sent[1].apartment = ApartmentName(1)
    /\ sent[2].apartment = ApartmentName(2)
    /\ FailedCalls = {1, 2}

(***************************************************************************)
(* C25: the map of get_bookings_by_apartment.                              *)
(***************************************************************************)
\* the map get_bookings_by_apartment returned is held in data
Grouped == step \in {"booking_list", "unoccupied"}

\* the ids of the fetched bookings of one apartment that have every required
\* field, in fetch order
RECURSIVE KeptIds(_, _)
KeptIds(served, name) ==
    IF served = <<>> THEN <<>>
    ELSE (IF Complete(Head(served)) /\ Head(served)["apartment"].name = name
          THEN <<Head(served)["id"][1]>> ELSE <<>>)
         \o KeptIds(Tail(served), name)

\* the ids of the tuples under the i-th key, in list order
IdsUnder(i) == [k \in 1..Len(data[i].bookings) |-> data[i].bookings[k][1]]

\* C25: get_bookings_by_apartment partitions the fetched bookings by
\* apartment name: the keys are exactly the apartments named by a fetched
\* booking, each once, and the list of a key holds exactly the bookings of
\* that apartment with all required fields present, each once and in fetch
\* order; it is empty when every booking of the apartment was dropped
C25_PartitionByApartment ==
    Grouped =>
       LET served == Flat(pages)
       IN  /\ {data[i].apartment : i \in 1..Len(data)} =
                 {served[j]["apartment"].name : j \in 1..Len(served)}
           /\ \A i, j \in 1..Len(data) :
                 data[i].apartment = data[j].apartment => i = j
           /\ \A i \in 1..Len(data) :
                 IdsUnder(i) = KeptIds(served, data[i].apartment)

\* two bookings of two apartments were fetched: the first lacks its email
\* and leaves its apartment with an empty list, the second is kept
C25_Witness ==
    /\ step = "booking_list"
    /\ Len(Flat(pages)) = 2
    /\ ~Complete(Flat(pages)[1])
    /\ Len(data) = 2
    /\ data[1].apartment = Flat(pages)[1]["apartment"].name
    /\ data[1].bookings = <<>>
    /\ IdsUnder(2) = <<2>>

(***************************************************************************)
(* C26: a booking whose departure lies before its arrival.                 *)
(***************************************************************************)
\* the bookings of the latest analysis whose departure is earlier than
\* their arrival
Reversed == {k \in 1..Len(bookings) : Departure(bookings[k]) < Arrival(bookings[k])}

\* the other bookings of the latest analysis, in their order
RECURSIVE InOrder(_)
InOrder(bs) ==
    IF bs = <<>> THEN <<>>
    ELSE (IF Departure(Head(bs)) < Arrival(Head(bs)) THEN <<>>
          ELSE <<Head(bs)>>) \o InOrder(Tail(bs))

\* C26: a booking with its departure before its arrival adds no date to the
\* map of occupied days and no event, and raises no error, no division by
\* zero either when the departure is the day before the arrival; the map
\* and the events are those of the other bookings alone
C26_ReversedBookingIgnored ==
    /\ pc # "raised"
    /\ raised = "none"
    /\ Reversed # {} =>
          LET others == InOrder(bookings)
              spans == Spans(bookings)
          IN  /\ \A d \in DOMAIN occupied_days :
                    \E k \in CoveringIn(spans, d) : k \notin Reversed
              /\ occupied_days = CreateOccupiedDaysDict(others)
              /\ events = AnalyzeBookings(others, date_range)

\* the unit has a booking that departs the day before it arrives and a
\* booking in the right order: the analysis ends with the days and the
\* events of the second one only
C26_Witness ==
    /\ pc = "done"
    /\ Len(bookings) = 2
    /\ Arrival(bookings[1]) - Departure(bookings[1]) = 1
    /\ Reversed = {1}
    /\ DOMAIN occupied_days # {}
    /\ Len(events) = 2

====
